---------------------------- MODULE Spec2Model ----------------------------
(***************************************************************************)
(* A model of gekraftet's client-side mesher:                              *)
(*   - GroupedBlock, the bit-packed group record (greedy_cube.rs),         *)
(*   - GreedyCubeMesher::intrasection_cull, the three merge passes and the *)
(*     emission loop (greedy_cube.rs),                                     *)
(*   - MeshBuilder::create_cuboid and MeshBuilder::add_mesh (builder.rs),  *)
(*   - the chunk dispatch over the mpsc channel (main.rs).                 *)
(***************************************************************************)
EXTENDS Integers, Sequences, FiniteSets, TLC

VARIABLES
    mode,       \* which of the specifications below is running
    pc,         \* position of the running operation
    sect,       \* mesher: the section descriptor handed to intrasection_cull
    col,        \* mesher: the (x, z) column the current loop is at, x * 16 + z
    blocks,     \* mesher: the local block table (Vec<&Block>), as block ids
    groups,     \* mesher: the group records (u32 bitfields)
    filled,     \* mesher: how many records the PartialArray holds
    mb,         \* mesher / builder: the MeshBuilder being accumulated
    calls,      \* mesher: positions for which the emission loop built a cuboid
    rec,        \* record: a GroupedBlock's bitfield
    prev,       \* record: the bitfield before the last mutator
    op,         \* record / cuboid / builder: the last call and its arguments
    chan        \* dispatch: the channel, the threads and the consumer

vars == <<mode, pc, sect, col, blocks, groups, filled, mb, calls, rec, prev, op, chan>>

-----------------------------------------------------------------------------
(* Bounds of the model. *)

\* Block ids of a section are drawn from 0 .. MaxType (0 is air).
MaxType == 2

-----------------------------------------------------------------------------
(* GroupedBlock: a u32 bitfield.                                            *)
(*   bits 0..3 z extent, 4..7 y extent, 8..11 x extent, 12..23 block index, *)
(*   24..29 faces, 30 group flag.                                           *)

Pow2(n) == 2 ^ n

\* A loop of the program is a recursive operator that passes the loop's state
\* from one iteration to the next.  Seq2(v, e) is e, with the state v of the
\* iteration just run evaluated first, so that the iterations are evaluated in
\* the program's order instead of nested in one another.
Seq2(v, e) == IF DOMAIN v = DOMAIN v THEN e ELSE e

\* (v >> lo) & (2^n - 1)
Bits(v, lo, n) == (v \div Pow2(lo)) % Pow2(n)

\* v & !(((2^n) - 1) << lo), as a u32
ClearBits(v, lo, n) == v - Bits(v, lo, n) * Pow2(lo)

\* a | b on u32 values, computed 12 bits at a time where one of the two has no
\* bit set among them, and bit by bit elsewhere
RECURSIVE BitOr(_, _)
BitOr(a, b) ==
    IF a = 0 THEN b
    ELSE IF b = 0 THEN a
    ELSE IF a % 4096 = 0 \/ b % 4096 = 0
    THEN (a % 4096) + (b % 4096) + 4096 * BitOr(a \div 4096, b \div 4096)
    ELSE (IF a % 2 = 1 \/ b % 2 = 1 THEN 1 ELSE 0) + 2 * BitOr(a \div 2, b \div 2)

\* a ^ (1 << n) on u32 values
XorBit(a, n) == IF Bits(a, n, 1) = 1 THEN a - Pow2(n) ELSE a + Pow2(n)

(* Face: a set of the six cube faces, kept as a 6-bit mask.  The type lives *)
(* in mesh/mod.rs; its bits follow the order the specification gives:      *)
(* back, right, top, front, left, bottom.                                  *)
BACK   == 1
RIGHT  == 2
TOP    == 4
FRONT  == 8
LEFT   == 16
BOTTOM == 32
AllFaces == {BACK, RIGHT, TOP, FRONT, LEFT, BOTTOM}
FaceMasks == 0 .. 63

FaceEmpty == 0
FaceAll == BACK + RIGHT + TOP + FRONT + LEFT + BOTTOM
Intersects(face, f) == (face \div f) % 2 = 1
Disable(face, f) == IF Intersects(face, f) THEN face - f ELSE face
FromBitfield(b) == b % 64
IntoBitfield(face) == face

\* GroupedBlock::new
DefaultExtent == 273            \* 0b100010001
GroupedBlockNew(block) ==
    BitOr(BitOr(DefaultExtent, block * Pow2(12)), 63 * Pow2(24))

block_id(b) == Bits(b, 12, 12)

DecodeExtentRaw(v) == v
DecodeExtent(v) == IF v = 0 THEN 16 ELSE v
extent(b) ==
    [x |-> DecodeExtent(Bits(b, 8, 4)),
     y |-> DecodeExtent(Bits(b, 4, 4)),
     z |-> DecodeExtent(Bits(b, 0, 4))]

is_in_group(b) == Bits(b, 30, 1) = 1

faces(b) == FromBitfield(Bits(b, 24, 6))

EncodeExtent(x, y, z) == (x % 16) * Pow2(8) + (y % 16) * Pow2(4) + (z % 16)
extend_to(b, x, y, z) == BitOr(ClearBits(b, 0, 12), EncodeExtent(x, y, z))

toggle_group(b) == XorBit(b, 30)

set_facesNoClear(b, face) == BitOr(b, IntoBitfield(face) * Pow2(24))
set_faces(b, face) == BitOr(ClearBits(b, 24, 6), IntoBitfield(face) * Pow2(24))

-----------------------------------------------------------------------------
(* The section handed to intrasection_cull.  A section is 16 x 16 x 16     *)
(* blocks, read as section[x][z][y]; a block is modelled by its id (0 is   *)
(* air).  A descriptor gives a 2 x 2 x 2 pattern and what surrounds it:    *)
(* rest = -1 repeats the pattern through the section, rest >= 0 places the *)
(* pattern at the origin corner and fills every other cell with that id.   *)

SECTION_LENGTH == 16
Coord == 0 .. SECTION_LENGTH - 1

PatIdx(x, z, y) == 4 * (x % 2) + 2 * (z % 2) + (y % 2) + 1

Voxel(s, x, z, y) ==
    IF s.rest = -1 \/ (x < 2 /\ z < 2 /\ y < 2)
    THEN s.pat[PatIdx(x, z, y)]
    ELSE s.rest

Types == 0 .. MaxType
Opaque == 1 .. MaxType

\* the opaque type after t, cyclically
NextType(t) == (t % MaxType) + 1

UniformSections == { [pat |-> <<t, t, t, t, t, t, t, t>>, rest |-> -1] : t \in Types }
\* (x=0, z=0, y=0) and (x=0, z=0, y=1) of one type, every other cell empty
TwoCellSections == { [pat |-> <<t, t, 0, 0, 0, 0, 0, 0>>, rest |-> 0] : t \in Opaque }
\* opaque and empty cells alternating along every axis, in both phases
CheckerSections ==
    { [pat |-> <<t, 0, 0, t, 0, t, t, 0>>, rest |-> -1] : t \in Opaque }
    \cup { [pat |-> <<0, t, NextType(t), 0, t, 0, 0, NextType(t)>>, rest |-> -1] : t \in Opaque }
\* sections of two opaque types and air
MixedOf(t, u) ==
    { [pat |-> <<t, u, t, u, t, u, t, u>>, rest |-> -1],
      [pat |-> <<t, 0, t, u, 0, 0, 0, 0>>, rest |-> 0],
      [pat |-> <<t, t, u, 0, 0, 0, 0, 0>>, rest |-> 0],
      [pat |-> <<t, t, 0, u, 0, 0, 0, 0>>, rest |-> 0],
      [pat |-> <<t, t, t, t, u, u, u, u>>, rest |-> 0],
      [pat |-> <<t, t, t, u, u, u, t, 0>>, rest |-> -1],
      [pat |-> <<t, u, u, u, t, t, u, t>>, rest |-> t],
      [pat |-> <<u, u, t, t, u, 0, t, t>>, rest |-> -1] }
MixedSections == UNION { MixedOf(t, NextType(t)) : t \in Opaque }

Sections == UniformSections \cup TwoCellSections \cup CheckerSections \cup MixedSections

(* The group records: `groups`, an array of 4096 records in the flat order  *)
(* idx = x * 256 + z * 16 + y.  The model keeps the array as 16 slabs of 16 *)
(* columns of 16 records and reaches a record through its flat index.       *)
At(x, z, y) == x * 256 + z * 16 + y

Get(g, idx) == g[(idx \div 256) + 1][((idx \div 16) % 16) + 1][(idx % 16) + 1]
Set(g, idx, v) ==
    [g EXCEPT ![(idx \div 256) + 1][((idx \div 16) % 16) + 1][(idx % 16) + 1] = v]

\* PartialArray::<GroupedBlock, 4096>::new(): no slot is filled yet (a slot that
\* is not filled is never read; the model keeps 0 there)
Unfilled == 0
NewPartialArray == [x \in 1 .. 16 |-> [z \in 1 .. 16 |-> [y \in 1 .. 16 |-> Unfilled]]]

\* PartialArray::push
Push(st, v) == [st EXCEPT !.g = Set(st.g, st.len, v), !.len = st.len + 1]

-----------------------------------------------------------------------------
(* intrasection_cull, pass 1: the body of `for y in 0..16` for one cell.   *)
(* st = [blocks, g, len]: the block table and the PartialArray.            *)

Max(S) == CHOOSE m \in S : \A n \in S : n <= m

\* blocks.iter().enumerate().rev().find(..), then push when nothing is found
FindOrPushAlways(bl, v) == [blocks |-> Append(bl, v), id |-> Len(bl)]
FindOrPush(bl, v) ==
    LET found == { i \in 1 .. Len(bl) : bl[i] = v }
    IN  IF found = {}
        THEN [blocks |-> Append(bl, v), id |-> Len(bl)]
        ELSE [blocks |-> bl, id |-> Max(found) - 1]

\* can_disable_face of pass 1, with the stray variant that forgets air
CanDisableFace1Always(bl, b, group) == TRUE
CanDisableFace1(bl, b, group) ==
    bl[block_id(b) + 1] # 0 /\ bl[block_id(group) + 1] # 0

Pass1Cell(st, s, x, z, y) ==
    LET fp    == FindOrPush(st.blocks, Voxel(s, x, z, y))
        bl    == fp.blocks
        group == GroupedBlockNew(fp.id)
        st1   == [st EXCEPT !.blocks = bl]
    IN  IF y > 0
        THEN LET i  == x * 256 + z * 16 + y - 1
                 b  == Get(st.g, i)
                 can_disable_face == CanDisableFace1(bl, b, group)
                 face1 == faces(group)
                 face2 == faces(b)
             IN  IF block_id(b) = block_id(group)
                 THEN Push([st1 EXCEPT !.g = Set(st.g, i, toggle_group(b))],
                           extend_to(group, 1, 1 + extent(b).y, 1))
                 ELSE IF can_disable_face
                 THEN Push([st1 EXCEPT !.g = Set(st.g, i, set_faces(b, Disable(face2, TOP)))],
                           set_faces(group, Disable(face1, BOTTOM)))
                 ELSE Push(st1, group)
        ELSE Push(st1, group)

RECURSIVE Pass1Column(_, _, _, _, _)
Pass1Column(st, s, x, z, y) ==
    IF y = SECTION_LENGTH THEN st
    ELSE Pass1Column(Pass1Cell(st, s, x, z, y), s, x, z, y + 1)

(* Pass 2 (marking along the z axis): the loop body for one cell. *)
Pass2Neighbour(idx) == idx - 16

CanDisableFace2Strict(bl, cur, nbr) ==
    /\ bl[block_id(cur) + 1] # 0
    /\ bl[block_id(nbr) + 1] # 0
    /\ extent(nbr).y > extent(cur).y

\* can_disable_face of Pass 2
CanDisableFace2(bl, cur, nbr) ==
    /\ bl[block_id(cur) + 1] # 0
    /\ bl[block_id(nbr) + 1] # 0
    /\ extent(nbr).y >= extent(cur).y

CullBoth2(g, idx, idx2) ==
    Set(Set(g, idx, set_faces(Get(g, idx), Disable(faces(Get(g, idx)), BACK))),
        idx2, set_faces(Get(g, idx2), Disable(faces(Get(g, idx2)), FRONT)))

\* the cull of Pass 2 next to an absorbed neighbour: only the current record
\* is written
CullBesideAbsorbed2(g, idx, idx2) ==
    Set(g, idx, set_faces(Get(g, idx), Disable(faces(Get(g, idx)), BACK)))

SameExtent2Always(cur, nbr) == TRUE

\* the extent Pass 2 requires to be equal before it merges or culls both
SameExtent2(cur, nbr) == extent(cur).y = extent(nbr).y

Pass2Cell(g, bl, x, z, y) ==
    IF z = 0 THEN g
    ELSE
    LET idx  == x * 256 + z * 16 + y
        idx2 == Pass2Neighbour(idx)
        cur  == Get(g, idx)
        nbr  == Get(g, idx2)
    IN  IF is_in_group(cur) THEN g
        ELSE
        LET can_disable_face == CanDisableFace2(bl, cur, nbr)
        IN  IF is_in_group(nbr)
            THEN IF can_disable_face
                 THEN CullBesideAbsorbed2(g, idx, idx2)
                 ELSE g
            ELSE IF SameExtent2(cur, nbr)
            THEN LET face1 == faces(cur)
                     face2 == faces(nbr)
                 IN  IF block_id(cur) = block_id(nbr)
                     THEN LET orig_ext == extent(cur)
                              absorbed == toggle_group(nbr)
                          IN  Set(Set(g, idx2, absorbed), idx,
                                  extend_to(cur, orig_ext.x, orig_ext.y,
                                            orig_ext.z + extent(absorbed).z))
                     ELSE IF can_disable_face
                     THEN Set(Set(g, idx, set_faces(cur, Disable(face1, BACK))),
                              idx2, set_faces(nbr, Disable(face2, FRONT)))
                     ELSE g
            ELSE g

RECURSIVE Pass2Column(_, _, _, _, _)
Pass2Column(g, bl, x, z, y) ==
    IF y = SECTION_LENGTH THEN g
    ELSE Pass2Column(Pass2Cell(g, bl, x, z, y), bl, x, z, y + 1)

(* Pass 3 (marking along the x axis): the loop body for one cell. *)
Pass3NeighbourNear(idx) == idx - 16
Pass3Neighbour(idx) == idx - 256

SameExtent3YOnly(cur, nbr) == extent(cur).y = extent(nbr).y

\* the extents Pass 3 requires to be equal before it merges or culls both
SameExtent3(cur, nbr) ==
    /\ extent(cur).y = extent(nbr).y
    /\ extent(cur).z = extent(nbr).z

Pass3Cell(g, bl, x, z, y) ==
    IF x = 0 THEN g
    ELSE
    LET idx  == x * 256 + z * 16 + y
        idx2 == Pass3Neighbour(idx)
        cur  == Get(g, idx)
        nbr  == Get(g, idx2)
    IN  IF is_in_group(cur) THEN g
        ELSE
        LET can_disable_face ==
                /\ bl[block_id(cur) + 1] # 0
                /\ bl[block_id(nbr) + 1] # 0
                /\ extent(nbr).y >= extent(cur).y
                /\ extent(nbr).z >= extent(cur).z
        IN  IF is_in_group(nbr)
            THEN IF can_disable_face
                 THEN Set(g, idx, set_faces(cur, Disable(faces(cur), LEFT)))
                 ELSE g
            ELSE IF SameExtent3(cur, nbr)
            THEN LET face1 == faces(cur)
                     face2 == faces(nbr)
                 IN  IF block_id(cur) = block_id(nbr)
                     THEN LET orig_ext == extent(cur)
                              absorbed == toggle_group(nbr)
                          IN  Set(Set(g, idx2, absorbed), idx,
                                  extend_to(cur, orig_ext.x + extent(absorbed).x,
                                            orig_ext.y, orig_ext.z))
                     ELSE IF can_disable_face
                     THEN Set(Set(g, idx, set_faces(cur, Disable(face1, LEFT))),
                              idx2, set_faces(nbr, Disable(face2, RIGHT)))
                     ELSE g
            ELSE g

RECURSIVE Pass3Column(_, _, _, _, _)
Pass3Column(g, bl, x, z, y) ==
    IF y = SECTION_LENGTH THEN g
    ELSE Pass3Column(Pass3Cell(g, bl, x, z, y), bl, x, z, y + 1)

-----------------------------------------------------------------------------
(* MeshBuilder.  A vertex is <<x, y, z, lighting>>: its position and the   *)
(* lighting value its texture coordinate is computed from (the colour is   *)
(* the same for every vertex).  Lengths are counted in halves of           *)
(* BLOCK_LENGTH, so that length * 0.5 stays an integer.                    *)

LIGHTING == <<3, 4, 5, 3, 4, 1>>
LIGHTING_VERT ==
    <<LIGHTING[1], LIGHTING[5], LIGHTING[2], LIGHTING[4],
      LIGHTING[6], LIGHTING[4], LIGHTING[3], 5>>

\* std::u32::MAX, the mark of a corner not added yet: all 32 bits set, which
\* reads -1 in the signed 32-bit integers of the model checker
U32_MAX == -1
MappedLen == 128

EmptyMesh == [vertices |-> <<>>, indices |-> <<>>]

\* the `match index` of add_face: corner `index` of the box
CornerVertex(index, halved, origin) ==
    LET sx == IF index \in {2, 3, 6, 7} THEN halved.x ELSE -halved.x
        sy == IF index \in {1, 2, 5, 6} THEN halved.y ELSE -halved.y
        sz == IF index \in {4, 5, 6, 7} THEN halved.z ELSE -halved.z
    IN  <<sx + origin.x, sy + origin.y, sz + origin.z, LIGHTING_VERT[index + 1]>>

AddIndexNoReuse(st, index, halved, origin) ==
    [actual |-> Append(st.actual, Len(st.added)),
     mapped |-> [st.mapped EXCEPT ![index] = Len(st.added)],
     added  |-> Append(st.added, CornerVertex(index, halved, origin))]

\* one iteration of add_face's loop; st = [actual, mapped, added]
AddIndex(st, index, halved, origin) ==
    IF st.mapped[index] = U32_MAX
    THEN [actual |-> Append(st.actual, Len(st.added)),
          mapped |-> [st.mapped EXCEPT ![index] = Len(st.added)],
          added  |-> Append(st.added, CornerVertex(index, halved, origin))]
    ELSE [st EXCEPT !.actual = Append(st.actual, st.mapped[index])]

RECURSIVE AddFace(_, _, _, _, _)
AddFace(st, indices, k, halved, origin) ==
    IF k > Len(indices) THEN st
    ELSE LET st2 == AddIndex(st, indices[k], halved, origin)
         IN  Seq2(st2, AddFace(st2, indices, k + 1, halved, origin))

\* the six `if faces.intersects(..) { add_face(..) }` statements, in order
FaceOrder ==
    << [face |-> BACK,   indices |-> <<1, 3, 0, 1, 2, 3>>],
       [face |-> RIGHT,  indices |-> <<7, 3, 2, 6, 7, 2>>],
       [face |-> TOP,    indices |-> <<1, 5, 6, 2, 1, 6>>],
       [face |-> FRONT,  indices |-> <<4, 7, 5, 7, 6, 5>>],
       [face |-> LEFT,   indices |-> <<0, 4, 1, 4, 5, 1>>],
       [face |-> BOTTOM, indices |-> <<3, 7, 4, 0, 3, 4>>] >>

RECURSIVE AddFaces(_, _, _, _, _)
AddFaces(st, face, n, halved, origin) ==
    IF n > Len(FaceOrder) THEN st
    ELSE LET st2 == IF Intersects(face, FaceOrder[n].face)
                    THEN AddFace(st, FaceOrder[n].indices, 1, halved, origin)
                    ELSE st
         IN  Seq2(st2, AddFaces(st2, face, n + 1, halved, origin))

create_cuboid(length, origin, face) ==
    IF face = FaceEmpty THEN EmptyMesh
    ELSE
    LET halved == [x |-> length.x \div 2, y |-> length.y \div 2, z |-> length.z \div 2]
        st == AddFaces([actual |-> <<>>,
                        mapped |-> [i \in 0 .. MappedLen - 1 |-> U32_MAX],
                        added  |-> <<>>],
                       face, 1, halved, origin)
    IN  [vertices |-> st.added, indices |-> st.actual]

add_meshNoOffset(self, mesh) ==
    [vertices |-> self.vertices \o mesh.vertices,
     indices  |-> self.indices \o mesh.indices]

\* (the u32 sum cannot wrap: a mesh holds far fewer than 2^32 vertices)
add_mesh(self, mesh) ==
    LET index_start == Len(self.vertices)
    IN  [vertices |-> self.vertices \o mesh.vertices,
         indices  |-> self.indices \o
                      [i \in 1 .. Len(mesh.indices) |->
                          mesh.indices[i] + index_start]]

(* The emission loop of intrasection_cull: its body for the record at pos. *)
EmitsAbsorbedToo(g, bl, pos) == bl[block_id(Get(g, pos)) + 1] # 0
EmitsAirToo(g, bl, pos) == ~is_in_group(Get(g, pos))
Emits(g, bl, pos) ==
    /\ ~is_in_group(Get(g, pos))
    /\ bl[block_id(Get(g, pos)) + 1] # 0

RecordMesh(g, pos, block_pos) ==
    LET grp == Get(g, pos)
        x == (pos \div 256) % 16
        z == (pos \div 16) % 16
        y == pos % 16
        e == extent(grp)
        origin == [x |-> x + block_pos.x - e.x,
                   y |-> y + block_pos.y - e.y,
                   z |-> z + block_pos.z - e.z]
    IN  create_cuboid([x |-> 2 * e.x, y |-> 2 * e.y, z |-> 2 * e.z],
                      [x |-> 2 * origin.x + e.x,
                       y |-> 2 * origin.y + e.y,
                       z |-> 2 * origin.z + e.z],
                      faces(grp))

EmitRecord(st, g, bl, pos, block_pos) ==
    IF Emits(g, bl, pos)
    THEN [mb |-> add_mesh(st.mb, RecordMesh(g, pos, block_pos)),
          calls |-> Append(st.calls, pos)]
    ELSE st

RECURSIVE EmitColumn(_, _, _, _, _, _)
EmitColumn(st, g, bl, c, y, block_pos) ==
    IF y = SECTION_LENGTH THEN st
    ELSE LET st2 == EmitRecord(st, g, bl, c * 16 + y, block_pos)
         IN  Seq2(st2, EmitColumn(st2, g, bl, c, y + 1, block_pos))

-----------------------------------------------------------------------------
(* Spec: GreedyCubeMesher::intrasection_cull on one section.  One step     *)
(* runs the innermost `for y` loop of the current pass for one (x, z)      *)
(* column; the emission loop advances by the same 16 records.              *)

Columns == SECTION_LENGTH * SECTION_LENGTH

\* block_pos = *section_pos * 16
block_pos == [x |-> 0, y |-> 0, z |-> 0]

Idle == <<>>

MesherInit ==
    /\ mode = "mesher"
    /\ sect \in Sections
    /\ pc = "pass1"
    /\ col = 0
    /\ blocks = <<>>
    /\ groups = NewPartialArray
    /\ filled = 0
    /\ mb = EmptyMesh
    /\ calls = <<>>
    /\ rec = 0 /\ prev = 0 /\ op = Idle /\ chan = Idle

NextPc(p) ==
    CASE p = "pass1" -> "pass2"
      [] p = "pass2" -> "pass3"
      [] p = "pass3" -> "emit"
      [] p = "emit"  -> "done"

Advance ==
    /\ col' = IF col + 1 = Columns THEN 0 ELSE col + 1
    /\ pc'  = IF col + 1 = Columns THEN NextPc(pc) ELSE pc

Pass1 ==
    /\ mode = "mesher" /\ pc = "pass1"
    /\ LET st == Pass1Column([blocks |-> blocks, g |-> groups, len |-> filled], sect,
                             col \div 16, col % 16, 0)
       IN  blocks' = st.blocks /\ groups' = st.g /\ filled' = st.len
    /\ Advance
    /\ UNCHANGED <<mode, sect, mb, calls, rec, prev, op, chan>>

Pass2 ==
    /\ mode = "mesher" /\ pc = "pass2"
    /\ groups' = Pass2Column(groups, blocks, col \div 16, col % 16, 0)
    /\ Advance
    /\ UNCHANGED <<mode, sect, blocks, filled, mb, calls, rec, prev, op, chan>>

Pass3 ==
    /\ mode = "mesher" /\ pc = "pass3"
    /\ groups' = Pass3Column(groups, blocks, col \div 16, col % 16, 0)
    /\ Advance
    /\ UNCHANGED <<mode, sect, blocks, filled, mb, calls, rec, prev, op, chan>>

Emit ==
    /\ mode = "mesher" /\ pc = "emit"
    /\ LET st == EmitColumn([mb |-> mb, calls |-> calls], groups, blocks, col, 0, block_pos)
       IN  mb' = st.mb /\ calls' = st.calls
    /\ Advance
    /\ UNCHANGED <<mode, sect, blocks, groups, filled, rec, prev, op, chan>>

Next == Pass1 \/ Pass2 \/ Pass3 \/ Emit

Spec == MesherInit /\ [][Next]_vars

-----------------------------------------------------------------------------
(* Properties of the mesher, checked under Spec. *)

\* the block of the section at flat position i (0-based)
ScanVoxel(i) == Voxel(sect, (i \div 256) % 16, (i \div 16) % 16, i % 16)

Cells == SECTION_LENGTH * SECTION_LENGTH * SECTION_LENGTH
Slots == 0 .. Cells - 1

\* the state right after a pass has run over every column
AfterPass1 == pc = "pass2" /\ col = 0
AfterPass2 == pc = "pass3" /\ col = 0
AfterPass3 == pc = "emit" /\ col = 0
Finished == pc = "done"

NotAbsorbed == { i \in Slots : ~is_in_group(Get(groups, i)) }
FullExtent == [x |-> SECTION_LENGTH, y |-> SECTION_LENGTH, z |-> SECTION_LENGTH]
UnitExtent == [x |-> 1, y |-> 1, z |-> 1]

UniformOpaque == sect \in UniformSections /\ sect.pat[1] # 0

\* C1: for a section filled with one opaque type, after the three passes exactly
\* one record is not flagged absorbed, and that record has extent (16,16,16) and
\* all 6 face bits set.
C1_UniformMerge ==
    (UniformOpaque /\ (AfterPass3 \/ Finished)) =>
        /\ Cardinality(NotAbsorbed) = 1
        /\ \A i \in NotAbsorbed :
              extent(Get(groups, i)) = FullExtent /\ faces(Get(groups, i)) = 63

C1_Witness ==
    /\ UniformOpaque /\ AfterPass3
    /\ ~is_in_group(Get(groups, Cells - 1))
    /\ extent(Get(groups, Cells - 1)) = FullExtent
    /\ is_in_group(Get(groups, 0))

-----------------------------------------------------------------------------
TwoCell == sect \in TwoCellSections
Checker == sect \in CheckerSections

\* flat index of the record at (x=0, z=0, y=1)
UpperCell == At(0, 0, 1)

NotAbsorbedOpaque == { i \in NotAbsorbed : ScanVoxel(i) # 0 }

\* the record of the merged run of the two-cell section
IsTwoCellRun(r) ==
    /\ ~is_in_group(r)
    /\ extent(r) = [x |-> 1, y |-> 2, z |-> 1]
    /\ faces(r) = 63

TwoCellRest ==
    /\ (pc # "pass1") => IsTwoCellRun(Get(groups, UpperCell))
    /\ Finished => Len(mb.vertices) = 8 /\ Len(mb.indices) = 36

\* C2, as stated: in the two-cell section, after Pass 1 exactly one record is
\* not absorbed, the one at (0,0,1), with y-extent 2 and all faces; Pass 2 and
\* Pass 3 leave it unchanged; emission yields 8 vertices and 36 indices.
C2_AsStated ==
    TwoCell => /\ AfterPass1 => NotAbsorbed = {UpperCell}
               /\ TwoCellRest

\* C2, amended: in the two-cell section, after Pass 1 exactly one record of an
\* opaque cell is not absorbed, the one at (0,0,1), with y-extent 2 and all
\* faces (the top record of every run of air is not absorbed either); Pass 2
\* and Pass 3 leave it unchanged; emission yields 8 vertices and 36 indices.
C2_TwoCellRun ==
    TwoCell => /\ AfterPass1 => NotAbsorbedOpaque = {UpperCell}
               /\ TwoCellRest

C2_Witness ==
    /\ TwoCell /\ Finished
    /\ IsTwoCellRun(Get(groups, UpperCell))
    /\ is_in_group(Get(groups, At(0, 0, 0)))
    /\ Len(mb.vertices) = 8

-----------------------------------------------------------------------------
\* the 16 records of column c, and the flat positions of column c
ColumnOf(g, c) == g[(c \div 16) + 1][(c % 16) + 1]
ColumnSlots(c) == { c * 16 + y : y \in Coord }

IsUntouched(r) == ~is_in_group(r) /\ extent(r) = UnitExtent /\ faces(r) = 63

OpaqueSlots(c) == { i \in ColumnSlots(c) : ScanVoxel(i) # 0 }

\* calls' is calls followed by the positions of S, in increasing order
AppendsExactly(S) ==
    /\ Len(calls') = Len(calls) + Cardinality(S)
    /\ SubSeq(calls', 1, Len(calls)) = calls
    /\ \A k \in Len(calls) + 1 .. Len(calls') :
          /\ calls'[k] \in S
          /\ k < Len(calls') => calls'[k] < calls'[k + 1]

C3_Step ==
    Checker =>
      /\ pc = "pass1" =>
            /\ \A i \in ColumnSlots(col) : IsUntouched(Get(groups', i))
            /\ groups' = [groups EXCEPT ![(col \div 16) + 1][(col % 16) + 1] =
                                          ColumnOf(groups', col)]
      /\ pc \in {"pass2", "pass3"} => groups' = groups
      /\ pc = "emit" =>
            /\ AppendsExactly(OpaqueSlots(col))
            /\ Len(mb'.vertices) = Len(mb.vertices) + 8 * Cardinality(OpaqueSlots(col))
            /\ Len(mb'.indices) = Len(mb.indices) + 36 * Cardinality(OpaqueSlots(col))

\* C3: in a section alternating opaque and empty cells along every axis, no
\* step of any pass merges or culls: every record is created with extent
\* (1,1,1), all 6 faces and no absorbed flag, passes 2 and 3 change no record,
\* and emission builds a full box for each opaque cell and nothing for an
\* empty cell.
C3_CheckerUntouched == [][C3_Step]_vars

C3_Witness ==
    /\ Checker /\ pc = "emit" /\ col = 1
    /\ Len(calls) = 8
    /\ Len(mb.indices) = 288
    /\ \A i \in ColumnSlots(0) : IsUntouched(Get(groups, i))

-----------------------------------------------------------------------------
\* the records of column c that are not absorbed and whose cell is opaque
Eligible(c) ==
    { i \in ColumnSlots(c) : ~is_in_group(Get(groups, i)) /\ ScanVoxel(i) # 0 }

C9_Step ==
    pc = "emit" =>
      /\ AppendsExactly(Eligible(col))
      /\ Len(mb'.vertices) <= Len(mb.vertices) + 8 * Cardinality(Eligible(col))
      /\ Len(mb'.indices) <= Len(mb.indices) + 36 * Cardinality(Eligible(col))
      /\ Eligible(col) = {} => mb' = mb

\* C9: the emission loop builds a box for a record only if the record is not
\* absorbed and its cell is opaque, and at most one box for such a record: the
\* mesh grows by at most one box per such record and not at all for the others.
C9_EmissionSkips == [][C9_Step]_vars

C9_Witness ==
    /\ pc = "emit" /\ col = 1
    /\ calls = <<UpperCell>>
    /\ is_in_group(Get(groups, At(0, 0, 0))) /\ ScanVoxel(At(0, 0, 0)) # 0
    /\ ~is_in_group(Get(groups, At(0, 0, 15))) /\ ScanVoxel(At(0, 0, 15)) = 0
    /\ Len(mb.vertices) = 8

-----------------------------------------------------------------------------
\* the first position, in the scan order, at which block v occurs
FirstPos(v) ==
    CHOOSE i \in Slots : ScanVoxel(i) = v /\ \A j \in 0 .. i - 1 : ScanVoxel(j) # v

TableEntries == 1 .. Len(blocks)

\* C10: the block table holds no entry twice; once Pass 1 has run, it holds
\* the distinct blocks of the section in the order of their first occurrence
\* in the scan (x outermost, then z, y fastest), and every record's index
\* designates the entry equal to the block of the record's own cell.
C10_TableByFirstOccurrence ==
    /\ \A j, k \in TableEntries : j # k => blocks[j] # blocks[k]
    /\ AfterPass1 =>
          /\ { blocks[k] : k \in TableEntries } = { ScanVoxel(i) : i \in Slots }
          /\ \A k \in TableEntries :
                k < Len(blocks) => FirstPos(blocks[k]) < FirstPos(blocks[k + 1])
          /\ \A i \in Slots : blocks[block_id(Get(groups, i)) + 1] = ScanVoxel(i)

C10_Witness ==
    /\ AfterPass1
    /\ Len(blocks) = 3
    /\ blocks[3] = 0
    /\ block_id(Get(groups, Cells - 1)) = 2

-----------------------------------------------------------------------------
(* SpecRecord: one mutator of GroupedBlock applied to a record.  The       *)
(* record is drawn from values built by GroupedBlock::new and the          *)
(* mutators; the arguments range over every extent in 1..16 on each axis   *)
(* and every face mask.                                                    *)

SampleBlocks == {0, 2730, 4095}
SampleExtents == {<<1, 1, 1>>, <<16, 5, 10>>}
SampleFaces == {0, 42, 63}

BuildRecord(b, e, g, f) ==
    LET r == set_faces(extend_to(GroupedBlockNew(b), e[1], e[2], e[3]), f)
    IN  IF g THEN toggle_group(r) ELSE r

SampleRecords ==
    { BuildRecord(b, e, g, f) :
        b \in SampleBlocks, e \in SampleExtents, g \in BOOLEAN, f \in SampleFaces }

ExtentRange == 1 .. SECTION_LENGTH

RecordInit ==
    /\ mode = "record"
    /\ pc = "ready"
    /\ rec \in SampleRecords
    /\ prev = rec
    /\ op = Idle
    /\ sect = Idle /\ col = 0 /\ blocks = <<>> /\ groups = <<>> /\ filled = 0
    /\ mb = EmptyMesh /\ calls = <<>> /\ chan = Idle

Applied(r, o) ==
    /\ rec' = r
    /\ prev' = rec
    /\ op' = o
    /\ pc' = "applied"
    /\ UNCHANGED <<mode, sect, col, blocks, groups, filled, mb, calls, chan>>

ExtendTo ==
    /\ mode = "record" /\ pc = "ready"
    /\ \E x, y, z \in ExtentRange :
          Applied(extend_to(rec, x, y, z), <<"extend_to", x, y, z>>)

ToggleGroup ==
    /\ mode = "record" /\ pc = "ready"
    /\ Applied(toggle_group(rec), <<"toggle_group">>)

SetFaces ==
    /\ mode = "record" /\ pc = "ready"
    /\ \E face \in FaceMasks :
          Applied(set_faces(rec, face), <<"set_faces", face>>)

RecordNext == ExtendTo \/ ToggleGroup \/ SetFaces

SpecRecord == RecordInit /\ [][RecordNext]_vars

Did(name) == mode = "record" /\ pc = "applied" /\ op[1] = name

\* C4: after extend_to(ex, ey, ez) with each of ex, ey, ez in 1..16, extent()
\* returns (ex, ey, ez); an extent of 16 is stored as the 4-bit value 0 and
\* decoded back to 16.
C4_ExtentRoundTrip ==
    Did("extend_to") =>
        /\ extent(rec) = [x |-> op[2], y |-> op[3], z |-> op[4]]
        /\ op[2] = 16 => Bits(rec, 8, 4) = 0
        /\ op[3] = 16 => Bits(rec, 4, 4) = 0
        /\ op[4] = 16 => Bits(rec, 0, 4) = 0

C4_Witness ==
    /\ Did("extend_to")
    /\ op = <<"extend_to", 16, 16, 16>>
    /\ extent(prev) = [x |-> 16, y |-> 5, z |-> 10]
    /\ extent(rec) = FullExtent
    /\ Bits(rec, 0, 12) = 0

\* the bits of a record outside the fields the accessors decode
SpareBits(r) == (r \div Pow2(30)) \div 2

\* C7: extend_to changes only the three extent fields, toggle_group only the
\* absorbed flag (which it flips), set_faces only the face mask (which it
\* sets to its argument): the block index and every other field decode to the
\* same values before and after the call.
C7_MutatorFrame ==
    /\ Did("extend_to") =>
          /\ block_id(rec) = block_id(prev)
          /\ is_in_group(rec) = is_in_group(prev)
          /\ faces(rec) = faces(prev)
          /\ SpareBits(rec) = SpareBits(prev)
    /\ Did("toggle_group") =>
          /\ is_in_group(rec) = ~is_in_group(prev)
          /\ block_id(rec) = block_id(prev)
          /\ extent(rec) = extent(prev)
          /\ faces(rec) = faces(prev)
          /\ SpareBits(rec) = SpareBits(prev)
    /\ Did("set_faces") =>
          /\ faces(rec) = op[2]
          /\ block_id(rec) = block_id(prev)
          /\ extent(rec) = extent(prev)
          /\ is_in_group(rec) = is_in_group(prev)
          /\ SpareBits(rec) = SpareBits(prev)

C7_Witness ==
    /\ Did("set_faces")
    /\ op[2] = 21
    /\ faces(prev) = 42
    /\ block_id(rec) = 2730
    /\ is_in_group(rec)
    /\ extent(rec) = [x |-> 16, y |-> 5, z |-> 10]

-----------------------------------------------------------------------------
(* SpecCuboid: one call of MeshBuilder::create_cuboid, for every face mask *)
(* and a few boxes (lengths and centres in halves of BLOCK_LENGTH).        *)

Vec3(x, y, z) == [x |-> x, y |-> y, z |-> z]

SampleBoxes ==
    { [length |-> Vec3(2, 2, 2),    origin |-> Vec3(1, 1, 1)],
      [length |-> Vec3(2, 4, 2),    origin |-> Vec3(1, 2, 1)],
      [length |-> Vec3(32, 32, 32), origin |-> Vec3(16, 16, 16)],
      [length |-> Vec3(6, 2, 10),   origin |-> Vec3(-29, 17, 5)] }

CuboidInit ==
    /\ mode = "cuboid"
    /\ pc = "ready"
    /\ mb = EmptyMesh
    /\ op = Idle
    /\ sect = Idle /\ col = 0 /\ blocks = <<>> /\ groups = <<>> /\ filled = 0
    /\ calls = <<>> /\ rec = 0 /\ prev = 0 /\ chan = Idle

CreateCuboid ==
    /\ mode = "cuboid" /\ pc = "ready"
    /\ \E box \in SampleBoxes, face \in FaceMasks :
          /\ mb' = create_cuboid(box.length, box.origin, face)
          /\ op' = [box |-> box, face |-> face]
    /\ pc' = "built"
    /\ UNCHANGED <<mode, sect, col, blocks, groups, filled, calls, rec, prev, chan>>

CuboidNext == CreateCuboid

SpecCuboid == CuboidInit /\ [][CuboidNext]_vars

Built == mode = "cuboid" /\ pc = "built"

\* the faces of FaceOrder a mask shows, in the order they are added
RECURSIVE VisibleFrom(_, _)
VisibleFrom(face, n) ==
    IF n > Len(FaceOrder) THEN <<>>
    ELSE (IF Intersects(face, FaceOrder[n].face) THEN <<n>> ELSE <<>>)
         \o VisibleFrom(face, n + 1)

\* the corner ids the visible faces of a mask use
UsedCorners(face) ==
    UNION { { FaceOrder[n].indices[j] : j \in 1 .. 6 } :
              n \in { n \in 1 .. Len(FaceOrder) : Intersects(face, FaceOrder[n].face) } }

\* the corner of the box a vertex lies on, by position
CornerAt(v, box) ==
    { c \in 0 .. 7 :
        /\ v[1] = box.origin.x + (IF c \in {2, 3, 6, 7} THEN 1 ELSE -1) * (box.length.x \div 2)
        /\ v[2] = box.origin.y + (IF c \in {1, 2, 5, 6} THEN 1 ELSE -1) * (box.length.y \div 2)
        /\ v[3] = box.origin.z + (IF c \in {4, 5, 6, 7} THEN 1 ELSE -1) * (box.length.z \div 2) }

\* C6: for every face mask create_cuboid emits 6 indices per visible face,
\* one vertex per distinct corner the visible faces use and no corner twice,
\* every index is smaller than the number of vertices and designates the
\* corner its face names; all 6 faces give 8 vertices and 36 indices, the
\* empty mask gives an empty fragment.
C6_CuboidShape ==
    Built =>
      LET vis == VisibleFrom(op.face, 1)
          nv  == Len(mb.vertices)
      IN  /\ Len(mb.indices) = 6 * Len(vis)
          /\ nv = Cardinality(UsedCorners(op.face))
          /\ \A i \in 1 .. nv : \E c \in UsedCorners(op.face) :
                CornerAt(mb.vertices[i], op.box) = {c}
          /\ \A i, j \in 1 .. nv : i # j => mb.vertices[i] # mb.vertices[j]
          /\ \A k \in 1 .. Len(mb.indices) : mb.indices[k] \in 0 .. nv - 1
          /\ \A f \in 1 .. Len(vis) : \A j \in 1 .. 6 :
                CornerAt(mb.vertices[mb.indices[6 * (f - 1) + j] + 1], op.box)
                    = {FaceOrder[vis[f]].indices[j]}
          /\ op.face = FaceAll => nv = 8 /\ Len(mb.indices) = 36
          /\ op.face = FaceEmpty => mb = EmptyMesh

C6_Witness ==
    /\ Built
    /\ op.face = TOP + LEFT
    /\ op.box.length = Vec3(6, 2, 10)
    /\ Len(mb.vertices) = 6
    /\ Len(mb.indices) = 12

-----------------------------------------------------------------------------
(* SpecBuilder: a MeshBuilder that receives fragments through add_mesh, as *)
(* the emission loop does.  `filled` counts the calls made.                *)

MaxAdds == 3

\* a fragment that is no box: one triangle and one vertex no index uses
Triangle ==
    [vertices |-> << <<0, 0, 0, 1>>, <<2, 0, 0, 3>>, <<0, 2, 0, 4>>, <<7, 7, 7, 5>> >>,
     indices  |-> <<2, 0, 1>>]

Fragments ==
    { create_cuboid(b.length, b.origin, f) :
        b \in { [length |-> Vec3(2, 4, 2), origin |-> Vec3(1, 2, 1)],
                [length |-> Vec3(6, 2, 10), origin |-> Vec3(-29, 17, 5)] },
        f \in { FaceEmpty, FaceAll, BACK + TOP, BOTTOM } }
    \cup {Triangle}

BuilderInit ==
    /\ mode = "builder"
    /\ pc = "ready"
    /\ mb = EmptyMesh
    /\ prev = EmptyMesh
    /\ op = EmptyMesh
    /\ filled = 0
    /\ sect = Idle /\ col = 0 /\ blocks = <<>> /\ groups = <<>>
    /\ calls = <<>> /\ rec = 0 /\ chan = Idle

AddMesh ==
    /\ mode = "builder" /\ filled < MaxAdds
    /\ \E mesh \in Fragments :
          /\ mb' = add_mesh(mb, mesh)
          /\ op' = mesh
    /\ prev' = mb
    /\ filled' = filled + 1
    /\ pc' = "added"
    /\ UNCHANGED <<mode, sect, col, blocks, groups, calls, rec, chan>>

BuilderNext == AddMesh

SpecBuilder == BuilderInit /\ [][BuilderNext]_vars

Added == mode = "builder" /\ pc = "added"

IndicesInRange(mesh) ==
    \A k \in 1 .. Len(mesh.indices) : mesh.indices[k] \in 0 .. Len(mesh.vertices) - 1

\* C8: add_mesh keeps the builder's vertices and indices and appends the
\* fragment's vertices and the fragment's indices, each increased by the
\* vertex count before the call, so that every new index designates the
\* vertex it designated in the fragment; after any sequence of such calls
\* every index of the builder is smaller than its vertex count.
C8_AddMeshReindex ==
    /\ mode = "builder" => IndicesInRange(mb)
    /\ Added =>
          LET nv == Len(prev.vertices)
              ni == Len(prev.indices)
          IN  /\ mb.vertices = prev.vertices \o op.vertices
              /\ SubSeq(mb.indices, 1, ni) = prev.indices
              /\ Len(mb.indices) = ni + Len(op.indices)
              /\ \A k \in 1 .. Len(op.indices) :
                    /\ mb.indices[ni + k] = op.indices[k] + nv
                    /\ mb.vertices[mb.indices[ni + k] + 1] = op.vertices[op.indices[k] + 1]

C8_Witness ==
    /\ Added
    /\ filled = MaxAdds
    /\ op = Triangle
    /\ Len(prev.vertices) = 12
    /\ mb.indices[Len(mb.indices)] = 13

-----------------------------------------------------------------------------
(* SpecChannel: main's mpsc channel.  The world_minister thread spawns one *)
(* worker thread per chunk column, handing each a clone of the sender, and *)
(* then drops its own sender; every worker sends one tuple; the event loop *)
(* calls rx.recv() once per MainEventsCleared and drops the receiver when  *)
(* it exits.  chan holds                                                   *)
(*   next      the number of workers spawned so far                        *)
(*   tx        whether world_minister still holds its sender               *)
(*   running   the workers that have not sent yet (each holds a sender)    *)
(*   queue     the tuples sent and not yet received                        *)
(*   received  the tuples the event loop has received, in order            *)
(*   rx        whether the receiver is alive                               *)
(*   last      the outcome of the last rx.recv()                           *)
(*   failed    the workers whose send returned Err                         *)
(*   exit      how each worker thread ended: "none" while it has not,      *)
(*             else the value its closure returned, or "panic"             *)

bound0 == -16
bound1 == 16

\* the spawning loops are cut after MaxJobs workers
MaxJobs == 3

Jobs == 0 .. MaxJobs - 1

\* the k-th (x, y) of the spawning loops, as the tuple its worker sends
\* (pos.x, pos.y, pos.z); the mesh is determined by the position
JobPos(k) ==
    <<bound0 + (k \div (bound1 - bound0)), 0, bound0 + (k % (bound1 - bound0))>>

Senders(c) == (IF c.tx THEN 1 ELSE 0) + Cardinality(c.running)

EnqueueBounded(q, msg) == IF Len(q) >= 1 THEN q ELSE Append(q, msg)
Enqueue(q, msg) == Append(q, msg)

\* tx.send(..): Ok while the receiver is alive, Err once it is dropped
SendResult(rx) == IF rx THEN "Ok" ELSE "Err"

ThreadExitUnwrap(res) == IF res = "Err" THEN "panic" ELSE res
\* the send is the tail expression of the worker's closure: its Result is
\* the value the thread returns
ThreadExit(res) == res

ChannelInit ==
    /\ mode = "channel"
    /\ chan = [next |-> 0, tx |-> TRUE, running |-> {}, queue |-> <<>>,
               received |-> <<>>, rx |-> TRUE, last |-> "none", failed |-> {},
               exit |-> [k \in Jobs |-> "none"]]
    /\ pc = "ready"
    /\ sect = Idle /\ col = 0 /\ blocks = <<>> /\ groups = <<>> /\ filled = 0
    /\ mb = EmptyMesh /\ calls = <<>> /\ rec = 0 /\ prev = 0 /\ op = Idle

ChanFrame ==
    UNCHANGED <<mode, pc, sect, col, blocks, groups, filled, mb, calls, rec, prev, op>>

\* one iteration of the spawning loops: tx.clone() and thread::spawn
SpawnWorker ==
    /\ mode = "channel" /\ chan.tx /\ chan.next < MaxJobs
    /\ chan' = [chan EXCEPT !.next = @ + 1, !.running = @ \cup {chan.next}]
    /\ ChanFrame

\* drop(tx) after the loops
DropTx ==
    /\ mode = "channel" /\ chan.tx /\ chan.next = MaxJobs
    /\ chan' = [chan EXCEPT !.tx = FALSE]
    /\ ChanFrame

\* a worker finishes its mesh, sends and ends (its sender is dropped)
WorkerSend(k) ==
    /\ mode = "channel" /\ k \in chan.running
    /\ LET res == SendResult(chan.rx)
       IN  chan' = IF res = "Ok"
                   THEN [chan EXCEPT !.queue = Enqueue(@, JobPos(k)),
                                     !.running = @ \ {k},
                                     !.exit[k] = ThreadExit(res)]
                   ELSE [chan EXCEPT !.failed = @ \cup {k},
                                     !.running = @ \ {k},
                                     !.exit[k] = ThreadExit(res)]
    /\ ChanFrame

\* rx.recv() of one MainEventsCleared: blocks while the queue is empty and a
\* sender is alive
Recv ==
    /\ mode = "channel" /\ chan.rx
    /\ \/ /\ chan.queue # <<>>
          /\ chan' = [chan EXCEPT !.queue = Tail(@),
                                  !.received = Append(@, Head(chan.queue)),
                                  !.last = "ok"]
       \/ /\ chan.queue = <<>> /\ Senders(chan) = 0
          /\ chan' = [chan EXCEPT !.last = "err"]
    /\ ChanFrame

\* CloseRequested: the event loop exits and the receiver is dropped
CloseRequested ==
    /\ mode = "channel" /\ chan.rx
    /\ chan' = [chan EXCEPT !.rx = FALSE, !.queue = <<>>]
    /\ ChanFrame

ChannelNext ==
    \/ SpawnWorker
    \/ DropTx
    \/ \E k \in Jobs : WorkerSend(k)
    \/ Recv
    \/ CloseRequested

\* every thread keeps running; the window may stay open for ever
SpecChannel ==
    /\ ChannelInit
    /\ [][ChannelNext]_vars
    /\ WF_vars(SpawnWorker)
    /\ WF_vars(DropTx)
    /\ \A k \in Jobs : WF_vars(WorkerSend(k))
    /\ WF_vars(Recv)

Range(q) == { q[i] : i \in 1 .. Len(q) }
Dispatched == { JobPos(k) : k \in 0 .. chan.next - 1 }

ChannelSafe ==
    mode = "channel" =>
      /\ \A i, j \in 1 .. Len(chan.received) :
            i # j => chan.received[i] # chan.received[j]
      /\ Range(chan.received) \subseteq Dispatched
      /\ Range(chan.received) \cap Range(chan.queue) = {}
      /\ chan.rx =>
            /\ Range(chan.received) \cup Range(chan.queue)
                  = { JobPos(k) : k \in (0 .. chan.next - 1) \ chan.running }
            /\ (~chan.tx /\ chan.running # {}) => Senders(chan) > 0
            /\ chan.last = "err" =>
                  /\ chan.running = {} /\ chan.next = MaxJobs
                  /\ Len(chan.received) = MaxJobs

AllReceived ==
    /\ Len(chan.received) = MaxJobs
    /\ Range(chan.received) = { JobPos(k) : k \in Jobs }

\* C5: as long as the event loop keeps the receiver, it eventually holds one
\* tuple for each dispatched chunk coordinate and no other: no tuple twice,
\* none lost, in whatever order the workers sent; recv reports a closed
\* channel only after every worker has sent and every tuple was received,
\* although world_minister drops its own sender right after spawning.
C5_ChannelDelivery ==
    /\ []ChannelSafe
    /\ <>(mode = "channel" /\ (~chan.rx \/ AllReceived))

C5_Witness ==
    /\ mode = "channel" /\ chan.rx
    /\ chan.received = <<JobPos(2), JobPos(0), JobPos(1)>>
    /\ ~chan.tx
    /\ chan.last = "err"

-----------------------------------------------------------------------------
\* worker k ends in this step
Ends(k) == k \in chan.running /\ k \notin chan'.running

C11_Step ==
    (mode = "channel" /\ ~chan.rx) =>
        \A k \in Jobs : Ends(k) =>
            /\ chan'.exit[k] = "Err"
            /\ chan'.failed = chan.failed \cup {k}
            /\ chan'.queue = chan.queue /\ chan'.received = chan.received
            /\ chan'.running = chan.running \ {k}
            /\ chan'.next = chan.next /\ chan'.tx = chan.tx
            /\ \A j \in Jobs \ {k} : chan'.exit[j] = chan.exit[j]

AllEnded ==
    /\ chan.next = MaxJobs /\ ~chan.tx /\ chan.running = {}
    /\ \A k \in Jobs : chan.exit[k] \in {"Ok", "Err"}

\* C11: once the receiver is dropped, a worker's send returns Err and nothing
\* else happens: the tuple is discarded, the thread ends by returning that
\* value and does not panic, the other workers and the spawner keep their
\* state, and all of them still run to their end.
C11_SendFailureIsSoft ==
    /\ [][C11_Step]_vars
    /\ (mode = "channel" /\ ~chan.rx) ~> AllEnded

C11_Witness ==
    /\ mode = "channel" /\ ~chan.rx
    /\ chan.exit[0] = "Err" /\ chan.failed = {0}
    /\ chan.exit[1] = "Ok"
    /\ 2 \in chan.running
    /\ chan.received = <<>>

-----------------------------------------------------------------------------
\* the column Pass 1 has just filled, if any
JustFilled ==
    IF mode = "mesher" /\ pc = "pass1" /\ col > 0 THEN {col - 1}
    ELSE IF mode = "mesher" /\ AfterPass1 THEN {Columns - 1}
    ELSE {}

ColRec(c, y) == Get(groups, c * 16 + y)
ColVox(c, y) == ScanVoxel(c * 16 + y)

\* the cell at y (y > 0) or the cell below it is empty
AirPair(c, y) == ColVox(c, y) = 0 \/ ColVox(c, y - 1) = 0

\* the step at y cleared no face bit: BOTTOM of the record at y and TOP of
\* the record below it are still set
NoCullAt(c, y) ==
    /\ Intersects(faces(ColRec(c, y)), BOTTOM)
    /\ Intersects(faces(ColRec(c, y - 1)), TOP)

\* the step at y merged nothing: the record below is not absorbed and the
\* record at y has the extent it was created with
NoMergeAt(c, y) ==
    /\ ~is_in_group(ColRec(c, y - 1))
    /\ extent(ColRec(c, y)) = UnitExtent

\* the step at y merged the record below into the record at y
MergedAt(c, y) ==
    /\ is_in_group(ColRec(c, y - 1))
    /\ extent(ColRec(c, y)) =
          [x |-> 1, y |-> 1 + extent(ColRec(c, y - 1)).y, z |-> 1]

\* C12, as stated: in Pass 1, whenever the cell at y or the cell below it is
\* empty, the step neither merges nor culls.
C12_AsStated ==
    \A c \in JustFilled : \A y \in 1 .. 15 :
        AirPair(c, y) => NoMergeAt(c, y) /\ NoCullAt(c, y)

\* C12, amended: in Pass 1, whenever the cell at y or the cell below it is
\* empty, the step clears no face bit; it merges nothing when only one of the
\* two is empty, and when both are empty it merges them as it merges two
\* cells of one opaque type (the record below is flagged absorbed, the record
\* at y gets y-extent 1 + the y-extent below).  A record of an empty cell
\* keeps all 6 faces.
C12_AirInPass1 ==
    \A c \in JustFilled :
        /\ \A y \in 1 .. 15 :
              AirPair(c, y) =>
                  /\ NoCullAt(c, y)
                  /\ ColVox(c, y) # ColVox(c, y - 1) => NoMergeAt(c, y)
                  /\ ColVox(c, y) = ColVox(c, y - 1) => MergedAt(c, y)
        /\ \A y \in 0 .. 15 : ColVox(c, y) = 0 => faces(ColRec(c, y)) = 63

C12_Witness ==
    /\ TwoCell /\ pc = "pass1" /\ col = 1
    /\ ColVox(0, 1) # 0 /\ ColVox(0, 2) = 0
    /\ ~is_in_group(ColRec(0, 1)) /\ faces(ColRec(0, 1)) = 63
    /\ is_in_group(ColRec(0, 2))
    /\ extent(ColRec(0, 15)).y = 14

-----------------------------------------------------------------------------
(* Steps of Pass 2 and Pass 3.  A step runs the loop body for the 16 cells *)
(* of column col; the body at y reads and writes only the record at        *)
(* (x, z, y) and its neighbour at the same y, so what it does to them is   *)
(* read off the two records before and after the step.                     *)

\* the step's current record at y, before and after
Cur(y)     == Get(groups, col * 16 + y)
CurAfter(y) == Get(groups', col * 16 + y)

\* the Pass 2 neighbour of the current record at y, before and after
Nbr2(y)      == Get(groups, col * 16 + y - 16)
Nbr2After(y) == Get(groups', col * 16 + y - 16)

InPass2 == mode = "mesher" /\ pc = "pass2" /\ col % 16 > 0

BothOpaque2(y) == ScanVoxel(col * 16 + y) # 0 /\ ScanVoxel(col * 16 + y - 16) # 0

\* the step merges the neighbour into the current record
Merges2(y) == ~is_in_group(Nbr2(y)) /\ is_in_group(Nbr2After(y))

\* the case C13 is about
CullCase2(y) ==
    /\ ~is_in_group(Cur(y))
    /\ ~Merges2(y)
    /\ BothOpaque2(y)
    /\ extent(Nbr2(y)).y >= extent(Cur(y)).y

C13_StepAsStated ==
    InPass2 =>
        \A y \in Coord : CullCase2(y) =>
            /\ ~Intersects(faces(CurAfter(y)), BACK)
            /\ IF is_in_group(Nbr2(y))
               THEN Nbr2After(y) = Nbr2(y)
               ELSE ~Intersects(faces(Nbr2After(y)), FRONT)

\* C13, as stated: in Pass 2, a non-absorbed record that is not merged with
\* its neighbour at z-1 gets its BACK bit cleared whenever both are opaque
\* and the neighbour's y-extent is at least its own; the neighbour's FRONT
\* bit is cleared too unless the neighbour is absorbed.
C13_AsStated == [][C13_StepAsStated]_vars

C13_Step ==
    InPass2 =>
        \A y \in Coord : CullCase2(y) =>
            IF is_in_group(Nbr2(y))
            THEN /\ CurAfter(y) = set_faces(Cur(y), Disable(faces(Cur(y)), BACK))
                 /\ ~Intersects(faces(CurAfter(y)), BACK)
                 /\ Nbr2After(y) = Nbr2(y)
            ELSE IF extent(Nbr2(y)).y = extent(Cur(y)).y
            THEN /\ ~Intersects(faces(CurAfter(y)), BACK)
                 /\ ~Intersects(faces(Nbr2After(y)), FRONT)
            ELSE /\ CurAfter(y) = Cur(y)
                 /\ Nbr2After(y) = Nbr2(y)

\* C13, amended: in Pass 2, for a non-absorbed record that is not merged with
\* its neighbour at z-1, both opaque, the neighbour's y-extent at least its
\* own: if the neighbour is absorbed, the record's BACK bit is cleared and the
\* neighbour is left untouched; if the neighbour is not absorbed and the two
\* y-extents are equal, BACK is cleared on the record and FRONT on the
\* neighbour; if the neighbour is not absorbed and its y-extent is greater,
\* neither record changes.
C13_Pass2Cull == [][C13_Step]_vars

C13_Witness ==
    /\ mode = "mesher" /\ pc = "pass2" /\ col = 2
    /\ \E w \in Coord :
          /\ ScanVoxel(16 + w) # 0 /\ ScanVoxel(w) # 0
          /\ ~is_in_group(Get(groups, 16 + w)) /\ ~is_in_group(Get(groups, w))
          /\ extent(Get(groups, w)).y > extent(Get(groups, 16 + w)).y
          /\ Intersects(faces(Get(groups, 16 + w)), BACK)
    /\ \E w \in Coord :
          /\ ScanVoxel(16 + w) # 0 /\ ScanVoxel(w) # 0
          /\ is_in_group(Get(groups, w))
          /\ ~Intersects(faces(Get(groups, 16 + w)), BACK)

-----------------------------------------------------------------------------
\* the Pass 3 neighbour of the current record at y, before and after
Nbr3(y)      == Get(groups, col * 16 + y - 256)
Nbr3After(y) == Get(groups', col * 16 + y - 256)

InPass3 == mode = "mesher" /\ pc = "pass3" /\ col \div 16 > 0

\* the step merges the neighbour into the current record
Merges3(y) == ~is_in_group(Nbr3(y)) /\ is_in_group(Nbr3After(y))

MayMerge3(y) ==
    /\ ~is_in_group(Cur(y)) /\ ~is_in_group(Nbr3(y))
    /\ block_id(Cur(y)) = block_id(Nbr3(y))
    /\ extent(Cur(y)).y = extent(Nbr3(y)).y
    /\ extent(Cur(y)).z = extent(Nbr3(y)).z

C14_Step ==
    InPass3 =>
        \A y \in Coord :
            /\ Merges3(y) <=> MayMerge3(y)
            /\ extent(CurAfter(y)) # extent(Cur(y)) => Merges3(y)
            /\ Merges3(y) =>
                  /\ Nbr3After(y) = toggle_group(Nbr3(y))
                  /\ extent(CurAfter(y)) =
                        [x |-> extent(Cur(y)).x + extent(Nbr3(y)).x,
                         y |-> extent(Cur(y)).y,
                         z |-> extent(Cur(y)).z]
                  /\ block_id(CurAfter(y)) = block_id(Cur(y))
                  /\ faces(CurAfter(y)) = faces(Cur(y))
                  /\ ~is_in_group(CurAfter(y))

\* C14: in Pass 3 the record at (x,z,y), x > 0, absorbs the record 256 slots
\* earlier exactly when neither is flagged absorbed, their type indices are
\* equal and their y-extents and z-extents are equal; the merge sets only the
\* absorbed flag of the earlier record and sets the current record's x-extent
\* to the sum of the two x-extents, its y-extent, z-extent, type index and
\* face mask staying as they were.
C14_Pass3Merge == [][C14_Step]_vars

C14_Witness ==
    /\ mode = "mesher" /\ pc = "pass3" /\ col = 3 * 16
    /\ UniformOpaque
    /\ extent(Get(groups, At(2, 15, 15))) = [x |-> 3, y |-> 16, z |-> 16]
    /\ is_in_group(Get(groups, At(1, 15, 15)))
    /\ extent(Get(groups, At(1, 15, 15))).x = 2
    /\ faces(Get(groups, At(2, 15, 15))) = 63

-----------------------------------------------------------------------------
(* The box of a record.  The record at (x, z, y) with extent (ex, ey, ez)  *)
(* stands for the cells [x-ex+1 .. x] x [z-ez+1 .. z] x [y-ey+1 .. y]: the *)
(* emission loop draws the box from (x, y, z) - extent to (x, y, z).       *)

PosX(i) == (i \div 256) % 16
PosZ(i) == (i \div 16) % 16
PosY(i) == i % 16

BoxX(i) == (PosX(i) - extent(Get(groups, i)).x + 1) .. PosX(i)
BoxZ(i) == (PosZ(i) - extent(Get(groups, i)).z + 1) .. PosZ(i)
BoxY(i) == (PosY(i) - extent(Get(groups, i)).y + 1) .. PosY(i)

IsOpaqueCell(a, c, b) ==
    /\ a \in Coord /\ c \in Coord /\ b \in Coord
    /\ Voxel(sect, a, c, b) # 0

\* every cell next to the box of record i across face f is an opaque cell of
\* the section.  create_cuboid puts BACK at -z, FRONT at +z, LEFT at -x,
\* RIGHT at +x, BOTTOM at -y and TOP at +y.
Covered(i, f) ==
    CASE f = TOP    -> \A a \in BoxX(i), c \in BoxZ(i) : IsOpaqueCell(a, c, PosY(i) + 1)
      [] f = BOTTOM -> \A a \in BoxX(i), c \in BoxZ(i) :
                           IsOpaqueCell(a, c, PosY(i) - extent(Get(groups, i)).y)
      [] f = FRONT  -> \A a \in BoxX(i), b \in BoxY(i) : IsOpaqueCell(a, PosZ(i) + 1, b)
      [] f = BACK   -> \A a \in BoxX(i), b \in BoxY(i) :
                           IsOpaqueCell(a, PosZ(i) - extent(Get(groups, i)).z, b)
      [] f = RIGHT  -> \A c \in BoxZ(i), b \in BoxY(i) : IsOpaqueCell(PosX(i) + 1, c, b)
      [] f = LEFT   -> \A c \in BoxZ(i), b \in BoxY(i) :
                           IsOpaqueCell(PosX(i) - extent(Get(groups, i)).x, c, b)

\* C15: after the three passes, a face bit of a non-absorbed opaque record is
\* cleared only if every cell next to the record's box across that face is an
\* opaque cell of the section: no face that touches an empty cell or the
\* section boundary is culled.
C15_CullingSound ==
    (mode = "mesher" /\ AfterPass3) =>
        \A i \in NotAbsorbedOpaque : \A f \in AllFaces :
            ~Intersects(faces(Get(groups, i)), f) => Covered(i, f)

-----------------------------------------------------------------------------
RECURSIVE SumRange(_, _)
\* Op(0) + ... + Op(n - 1)
SumRange(Op(_), n) == IF n = 0 THEN 0 ELSE Op(n - 1) + SumRange(Op, n - 1)

\* the cells of the box of record i, as flat indices
BoxCells(i) == { At(a, c, b) : a \in BoxX(i), c \in BoxZ(i), b \in BoxY(i) }

\* the number of cells of the box of record i; 0 for an absorbed record
Volume(i) ==
    IF is_in_group(Get(groups, i)) THEN 0
    ELSE LET e == extent(Get(groups, i)) IN e.x * e.y * e.z

VolumeOfColumn(c) == SumRange(LAMBDA y : Volume(c * 16 + y), SECTION_LENGTH)
VolumeOfSlab(x) == SumRange(LAMBDA z : VolumeOfColumn(x * 16 + z), SECTION_LENGTH)
TotalVolume == SumRange(LAMBDA x : VolumeOfSlab(x), SECTION_LENGTH)

\* the boxes of the non-absorbed records lie in the section, hold only cells
\* of the record's type, all absorbed but the record's own, and cover every
\* cell once: they cover every cell, and their volumes add up to the number
\* of cells
Partition ==
    /\ \A i \in NotAbsorbed :
          /\ BoxX(i) \subseteq Coord /\ BoxZ(i) \subseteq Coord /\ BoxY(i) \subseteq Coord
          /\ blocks[block_id(Get(groups, i)) + 1] = ScanVoxel(i)
          /\ \A j \in BoxCells(i) :
                /\ ScanVoxel(j) = ScanVoxel(i)
                /\ j # i => is_in_group(Get(groups, j))
    /\ UNION { BoxCells(i) : i \in NotAbsorbed } = Slots
    /\ TotalVolume = Cells

InRange(n) == n \in 1 .. SECTION_LENGTH

\* the arguments of the extend_to call of a merging step are within 1..16
C16_Step ==
    /\ (mode = "mesher" /\ pc = "pass1") =>
          \A y \in 1 .. 15 :
              is_in_group(CurAfter(y - 1)) =>
                  /\ InRange(1 + extent(CurAfter(y - 1)).y)
                  /\ extent(CurAfter(y)) =
                        [x |-> 1, y |-> 1 + extent(CurAfter(y - 1)).y, z |-> 1]
    /\ InPass2 =>
          \A y \in Coord : Merges2(y) =>
              /\ InRange(extent(Cur(y)).x) /\ InRange(extent(Cur(y)).y)
              /\ InRange(extent(Cur(y)).z + extent(Nbr2(y)).z)
              /\ extent(CurAfter(y)).z = extent(Cur(y)).z + extent(Nbr2(y)).z
    /\ InPass3 =>
          \A y \in Coord : Merges3(y) =>
              /\ InRange(extent(Cur(y)).y) /\ InRange(extent(Cur(y)).z)
              /\ InRange(extent(Cur(y)).x + extent(Nbr3(y)).x)
              /\ extent(CurAfter(y)).x = extent(Cur(y)).x + extent(Nbr3(y)).x

AtPassEnd == mode = "mesher" /\ (AfterPass1 \/ AfterPass2 \/ AfterPass3)

\* C16: after each pass the boxes of the non-absorbed records lie inside the
\* section, are pairwise disjoint, contain only cells of the record's type and
\* together cover every cell exactly once, every cell of a box other than the
\* record's own being flagged absorbed; and no extend_to call of a merge is
\* given a component outside 1..16.
C16_Partition ==
    /\ [](AtPassEnd => Partition)
    /\ [][C16_Step]_vars

C16_Witness ==
    /\ mode = "mesher" /\ AfterPass3
    /\ sect \in MixedSections
    /\ Partition
    /\ \E i \in NotAbsorbedOpaque :
          LET e == extent(Get(groups, i)) IN e.x > 1 /\ e.y > 1 /\ e.z > 1
    /\ \E i \in NotAbsorbedOpaque : extent(Get(groups, i)) = UnitExtent

-----------------------------------------------------------------------------
\* no record of column c that is flagged absorbed is changed by the step
Frozen(c) ==
    \/ ColumnOf(groups', c) = ColumnOf(groups, c)
    \/ \A i \in ColumnSlots(c) :
          is_in_group(Get(groups, i)) => Get(groups', i) = Get(groups, i)

C17_Step ==
    (mode = "mesher" /\ pc \in {"pass2", "pass3", "emit"}) =>
        \A c \in 0 .. Columns - 1 : Frozen(c)

\* in the column Pass 1 fills in this step, toggle_group has made a record
\* absorbed only where the cell above continues its run, and the record still
\* has the extent of the run up to it
C17_Pass1Step ==
    (mode = "mesher" /\ pc = "pass1") =>
        /\ \A c \in 0 .. Columns - 1 : c # col => Frozen(c)
        /\ ~is_in_group(CurAfter(15))
        /\ \A y \in 0 .. 14 :
              is_in_group(CurAfter(y)) <=>
                  block_id(CurAfter(y + 1)) = block_id(CurAfter(y))
        /\ \A y \in 1 .. 15 :
              extent(CurAfter(y)).y =
                  IF is_in_group(CurAfter(y - 1))
                  THEN 1 + extent(CurAfter(y - 1)).y ELSE 1

\* C17: a record flagged absorbed is never changed again by any step of any
\* pass: its flag stays set (toggle_group reaches a record once, while its
\* flag is clear) and its extent, type index and face mask stay as they were
\* when it was absorbed.
C17_AbsorbedFrozen == [][C17_Step /\ C17_Pass1Step]_vars

C17_Witness ==
    /\ mode = "mesher" /\ pc = "pass3" /\ col = 2 * 16
    /\ sect \in MixedSections
    /\ \E i \in 0 .. 511 :
          /\ PosY(i) < 15 /\ is_in_group(Get(groups, i))
          /\ faces(Get(groups, i)) # 63
    /\ \E j \in 16 .. 511 :
          /\ PosZ(j) > 0
          /\ ~is_in_group(Get(groups, j)) /\ is_in_group(Get(groups, j - 16))
    /\ \E k \in 0 .. 255 :
          /\ is_in_group(Get(groups, k))
          /\ ~is_in_group(Get(groups, k + 256))
          /\ extent(Get(groups, k + 256)).x = 2

====
